---- MODULE Spec2Model ----
(***************************************************************************)
(* Model of the bevy 2d particle simulation: the setup schedule            *)
(* (create_balls, space_balls, pack_balls; src/src/ball.rs) and the        *)
(* per-frame collider system (src/src/particle_sim.rs).                    *)
(*                                                                         *)
(* f32 values are modelled as rationals <<num, den>> (den > 0, in lowest   *)
(* terms) and f32 expressions are evaluated exactly, with the finite       *)
(* precision of f32 modelled where a value is produced that the rationals  *)
(* at hand cannot carry: a square root that is not rational is rounded     *)
(* down to a multiple of SqrtUlp, a translation written by the collider is *)
(* rounded to a multiple of PosUlp, and a velocity written by the collider *)
(* is kept exact while its denominator is at most DenLimit and is rounded  *)
(* to a multiple of VelUlp beyond that.                                    *)
(*                                                                         *)
(* Every Mutex lock()/push and every atomic load/store of the code is one  *)
(* atomic step of the model, so the parallel par_iter pair checks          *)
(* interleave at exactly those points.  A pair check whose geometric test  *)
(* fails touches no shared state and is a stuttering step.                 *)
(***************************************************************************)
EXTENDS Integers, Sequences, FiniteSets, TLC

\* ------------------------------------------------------------------ bounds
NumBalls == 2
PackBalls == 3
MaxTicks == 2
MaxPasses == 6
DenLimit == 2000

\* -------------------------------------------------------------- rationals
Abs(k) == IF k < 0 THEN -k ELSE k

RECURSIVE Gcd(_, _)
Gcd(a, b) == IF b = 0 THEN a ELSE Gcd(b, a % b)

Norm(n, d) ==
    LET s == IF d < 0 THEN -1 ELSE 1
        g == Gcd(Abs(n), Abs(d))
    IN  <<(s * n) \div g, (s * d) \div g>>

I(k) == <<k, 1>>
\* sums, products and comparisons cancel common factors before multiplying, so
\* that intermediate values stay small
RAdd(a, b) ==
    LET g == Gcd(a[2], b[2])
    IN  Norm(a[1] * (b[2] \div g) + b[1] * (a[2] \div g), (a[2] \div g) * b[2])
RNeg(a) == <<-a[1], a[2]>>
RSub(a, b) == RAdd(a, RNeg(b))
RMul(a, b) ==
    LET g1 == Gcd(Abs(a[1]), b[2])
        g2 == Gcd(Abs(b[1]), a[2])
    IN  Norm((a[1] \div g1) * (b[1] \div g2), (a[2] \div g2) * (b[2] \div g1))
RDiv(a, b) == RMul(a, IF b[1] < 0 THEN <<-b[2], -b[1]>> ELSE <<b[2], b[1]>>)
RAbs(a) == <<Abs(a[1]), a[2]>>
RLt(a, b) ==
    LET g == Gcd(a[2], b[2])
    IN  a[1] * (b[2] \div g) < b[1] * (a[2] \div g)
RLe(a, b) == ~RLt(b, a)
RMax(a, b) == IF RLt(a, b) THEN b ELSE a
RMin(a, b) == IF RLt(b, a) THEN b ELSE a

RECURSIVE ISqrtIn(_, _, _)
ISqrtIn(m, lo, hi) ==
    IF lo >= hi THEN lo
    ELSE LET mid == (lo + hi + 1) \div 2
         IN  IF mid * mid <= m THEN ISqrtIn(m, mid, hi)
             ELSE ISqrtIn(m, lo, mid - 1)

ISqrt(m) == ISqrtIn(m, 0, IF m < 46340 THEN m ELSE 46340)

SqrtUlp == <<1, 100>>
PosUlp == <<1, 10>>
VelUlp == <<1, 100>>

RSqrt(q) ==
    LET sn == ISqrt(q[1])
        sd == ISqrt(q[2])
        scale == SqrtUlp[2]
    IN  IF sn * sn = q[1] /\ sd * sd = q[2] THEN Norm(sn, sd)
        ELSE Norm(ISqrt((q[1] * scale * scale) \div q[2]), scale)

\* the multiple of ulp nearest to q; a fraction with a denominator beyond
\* 10^6 is first cut down to one of about that size
Rounded(q, ulp) ==
    LET whole == q[1] \div q[2]
        cut == q[2] \div 1000000 + 1
        frac == (q[1] % q[2]) \div cut
        den == q[2] \div cut
        scale == ulp[2]
    IN  Norm(whole * scale + (2 * frac * scale + den) \div (2 * den), scale)

StorePos(q) == Rounded(q, PosUlp)
StoreVel(q) == IF q[2] <= DenLimit THEN q ELSE Rounded(q, VelUlp)

\* ---------------------------------------------------------------- vectors
Zero2 == <<I(0), I(0)>>
Zero3 == <<I(0), I(0), I(0)>>
V2(x, y) == <<I(x), I(y)>>

Add2(a, b) == <<RAdd(a[1], b[1]), RAdd(a[2], b[2])>>
Sub2(a, b) == <<RSub(a[1], b[1]), RSub(a[2], b[2])>>
Scale2(k, a) == <<RMul(k, a[1]), RMul(k, a[2])>>
Dot2(a, b) == RAdd(RMul(a[1], b[1]), RMul(a[2], b[2]))
Length2(a) == RSqrt(Dot2(a, a))

Add3(a, b) == <<RAdd(a[1], b[1]), RAdd(a[2], b[2]), RAdd(a[3], b[3])>>
Sub3(a, b) == <<RSub(a[1], b[1]), RSub(a[2], b[2]), RSub(a[3], b[3])>>
Extend(a, z) == <<a[1], a[2], z>>
Truncate(a) == <<a[1], a[2]>>
Splat(k) == <<k, k>>

distance_squared(a, b) ==
    LET d == Sub3(a, b)
    IN  RAdd(RAdd(RMul(d[1], d[1]), RMul(d[2], d[2])), RMul(d[3], d[3]))

\* glam: self.max(min).min(max), component-wise, whatever the order of min, max
Clamp3(v, lo, hi) ==
    <<RMin(RMax(v[1], lo[1]), hi[1]),
      RMin(RMax(v[2], lo[2]), hi[2]),
      RMin(RMax(v[3], lo[3]), hi[3])>>

\* glam: v * (1/length) when 1/length is finite and positive, else zero
normalize_or_zero(a) ==
    LET len == Length2(a)
    IN  IF len[1] > 0 THEN <<RDiv(a[1], len), RDiv(a[2], len)>> ELSE Zero2

\* ------------------------------------------------------- configuration
\* Simulation { num_balls, size_range, mass_range, velocity_range }
SizeSet == {2}
MassSet == {1, 2}
VelSet == {V2(1, 0), V2(-1, 0), V2(-3, -1), V2(3, 1)}

\* the setup schedule alone is explored with more balls
PackSizeSet == {2}
PackMassSet == {1}
PackVelSet == {V2(1, 0)}

\* the world-space corners of the camera's logical viewport rectangle
ViewBounds == <<V2(0, 0), <<<<17, 2>>, <<21, 2>>>>>>
\* Vec2::default(), what unwrap_or_default() substitutes for a missing corner
DefaultBounds == <<Zero2, Zero2>>
\* what the camera yields to one call: the rectangle and both corners, no
\* rectangle, or a rectangle whose corners do not convert to world space
ViewSet == {"ok", "norect", "nocorner"}

\* values thread_rng().gen_range can draw for a position
GridX == {2, 6}
GridY == {2, 5, 8}

\* Timer::from_seconds(0.1, TimerMode::Once), in milliseconds
TimerDuration == 100
\* values of time.raw_delta(), in milliseconds
DeltaSet == {0, 100}
\* the noisy accumulated impulse of one ball (uniform noise in [-1,1) plus the
\* accumulator clamped to length 10000), abstracted to a draw from this set
ImpulseSet == {<<I(1), I(0), I(1)>>}

Eps == <<1, 10>>

\* -------------------------------------------------------------- state
VARIABLES
    pc,               \* position in the schedule / inside the running system
    ents,             \* entities with the Ball component (what the queries see)
    ball,             \* ball[e]: Transform.translation, Velocity, Size, Mass
    bounds,           \* the local `bounds` of the running system
    view,             \* what the camera yielded to the running system
    raw_delta,        \* time.raw_delta() during pack_balls
    timer,            \* elapsed time of pack_balls' timer
    touching,         \* pack_balls: Mutex<HashMap<Entity, Vec3>>
    spaced,           \* pack_balls: AtomicBool
    scanned,          \* contacting pair checks of the running par_iter that are done
    cleared_entites,  \* pack_balls: Mutex<Vec<Entity>>
    task,             \* pack_balls phase B: position of each contacting pair check
    passes,           \* pack_balls phase B: full passes started
    commands,         \* despawn commands queued through ParallelCommands
    colliding,        \* collider: Mutex<Vec<(Entity, CollisionType)>>
    resolved,         \* collider: indices of `colliding` already handled
    tick,             \* collider runs completed
    pre               \* the balls as they were when the running collider call began

vars == <<pc, ents, ball, bounds, view, raw_delta, timer, touching, spaced,
          scanned, cleared_entites, task, passes, commands, colliding,
          resolved, tick, pre>>

packVars == <<raw_delta, timer, touching, spaced, cleared_entites, task,
              passes, commands>>
tickVars == <<colliding, resolved, tick, pre>>

Range(s) == {s[k] : k \in DOMAIN s}
Empty == [e \in {} |-> Zero3]

\* ---------------------------------------------------------- create_balls
\* the state after create_balls and apply_system_buffers: num_balls entities
\* with random size, mass and velocity, at Transform::default()
InitWith(num, sizes, masses, vels) ==
    /\ pc = "space_balls"
    /\ ents = 1..num
    /\ ball \in [1..num -> [pos : {Zero3}, vel : vels, size : sizes, mass : masses]]
    /\ bounds = DefaultBounds
    /\ view = "ok"
    /\ raw_delta = 0
    /\ timer = 0
    /\ touching = Empty
    /\ spaced = FALSE
    /\ scanned = {}
    /\ cleared_entites = <<>>
    /\ task = <<>>
    /\ passes = 0
    /\ commands = <<>>
    /\ colliding = <<>>
    /\ resolved = {}
    /\ tick = 0
    /\ pre = ball

Init == InitWith(NumBalls, SizeSet, MassSet, VelSet)

InitPack == InitWith(PackBalls, PackSizeSet, PackMassSet, PackVelSet)

\* ----------------------------------------------------------- the camera
\* camera.logical_viewport_rect().unwrap() with both corners .unwrap()ed
ViewOrPanic(v) == v = "ok"

\* ----------------------------------------------------------- space_balls
\* gen_range((bounds.0.x + size)..(bounds.1.x - size)): half-open
InRange(c, lo, hi, size) ==
    /\ RLe(RAdd(lo, I(size)), c)
    /\ RLt(c, RSub(hi, I(size)))

Placements(b, size) ==
    {<<I(x), I(y), I(0)>> : x \in {gx \in GridX : InRange(I(gx), b[1][1], b[2][1], size)},
                            y \in {gy \in GridY : InRange(I(gy), b[1][2], b[2][2], size)}}

space_balls ==
    /\ pc = "space_balls"
    /\ \E v \in ViewSet :
        /\ view' = v
        /\ IF ViewOrPanic(v)
           THEN /\ bounds' = ViewBounds
                /\ \E place \in [ents -> UNION {Placements(ViewBounds, ball[e].size) : e \in ents}] :
                    /\ \A e \in ents : place[e] \in Placements(ViewBounds, ball[e].size)
                    /\ ball' = [e \in ents |-> [ball[e] EXCEPT !.pos = place[e]]]
                /\ pc' = "pack_balls"
           ELSE /\ pc' = "Fault"
                /\ UNCHANGED <<bounds, ball>>
    /\ UNCHANGED <<ents, packVars, scanned, tickVars>>

\* ------------------------------------------------------------ pack_balls
\* the contact test with the second radius forgotten
TouchesOwnSize(b, i, j) ==
    RLt(distance_squared(b[i].pos, b[j].pos), I(b[i].size * b[i].size))

\* distance_squared(translation1, translation2) < (size1 + size2).pow(2)
Touches(b, i, j) ==
    RLt(distance_squared(b[i].pos, b[j].pos),
        I((b[i].size + b[j].size) * (b[i].size + b[j].size)))

\* the pair checks with the geometric test dropped
PackPairsAll == {p \in ents \X ents : p[1] # p[2]}

\* the pair checks of a parallel scan that pass the geometric test and
\* entity1 != entity2 (ball.rs 146-150 and 183-187)
PackPairs == {p \in ents \X ents : Touches(ball, p[1], p[2]) /\ p[1] # p[2]}

\* timer.finished()
TimerFinished == timer >= TimerDuration

\* lines 115-126: the bounds, the timer, the impulse map and the flag
pack_balls_enter ==
    /\ pc = "pack_balls"
    /\ \E v \in ViewSet :
        /\ view' = v
        /\ IF ViewOrPanic(v)
           THEN /\ bounds' = ViewBounds
                /\ pc' = "relax_loop"
           ELSE /\ pc' = "Fault"
                /\ UNCHANGED bounds
    /\ raw_delta' \in DeltaSet
    /\ timer' = 0
    /\ touching' = Empty
    /\ spaced' = FALSE
    /\ UNCHANGED <<ents, ball, scanned, cleared_entites, task, passes, commands,
                   tickVars>>

\* lines 136-139: (translation + vel).clamp(min + size, max - size), z included
ApplyImpulse(b, e, vel) ==
    LET size == I(b[e].size)
    IN  Clamp3(Add3(b[e].pos, vel),
               Add3(Extend(bounds[1], I(1)), <<size, size, I(1)>>),
               Sub3(Extend(bounds[2], I(1)), <<size, size, I(1)>>))

\* lines 128-143: one iteration of the relaxation loop up to the scan: drain
\* the impulses into the positions, set the flag, tick the timer
relax_step ==
    /\ pc = "relax_loop"
    /\ ~spaced /\ ~TimerFinished
    /\ ball' = [e \in DOMAIN ball |->
                   IF e \in DOMAIN touching
                   THEN [ball[e] EXCEPT !.pos = ApplyImpulse(ball, e, touching[e])]
                   ELSE ball[e]]
    /\ touching' = Empty
    /\ spaced' = TRUE
    /\ timer' = IF timer + raw_delta > TimerDuration THEN TimerDuration
                ELSE timer + raw_delta
    /\ scanned' = {}
    /\ pc' = "relax_scan"
    /\ UNCHANGED <<ents, bounds, view, raw_delta, cleared_entites, task, passes,
                   commands, tickVars>>

\* line 152: what a contacting pair check stores into the flag
RelaxFlag == TRUE

\* lines 146-171: one contacting pair check of the relaxation scan; the two
\* locked updates of the ball's entry leave a value drawn from ImpulseSet
relax_pair(p) ==
    /\ pc = "relax_scan"
    /\ p \in PackPairs \ scanned
    /\ spaced' = RelaxFlag
    /\ \E imp \in ImpulseSet :
        touching' = [e \in DOMAIN touching \cup {p[1]} |-> imp]
    /\ scanned' = scanned \cup {p}
    /\ UNCHANGED <<pc, ents, ball, bounds, view, raw_delta, timer,
                   cleared_entites, task, passes, commands, tickVars>>

\* the outer par_iter of the relaxation scan returns
relax_join ==
    /\ pc = "relax_scan"
    /\ PackPairs \subseteq scanned
    /\ pc' = "relax_loop"
    /\ scanned' = {}
    /\ UNCHANGED <<ents, ball, bounds, view, packVars, tickVars>>

\* line 128 false, lines 176-178: the relaxation loop is left; the timer, the
\* frame delta and the impulse map are not read again
relax_exit ==
    /\ pc = "relax_loop"
    /\ spaced \/ TimerFinished
    /\ spaced' = FALSE
    /\ cleared_entites' = <<>>
    /\ timer' = 0
    /\ raw_delta' = 0
    /\ touching' = Empty
    /\ pc' = "clear_loop"
    /\ UNCHANGED <<ents, ball, bounds, view, scanned, task, passes, commands,
                   tickVars>>

\* lines 179-180: a pass of the forced resolution starts
clear_pass ==
    /\ pc = "clear_loop"
    /\ ~spaced
    /\ passes < MaxPasses
    /\ spaced' = TRUE
    /\ passes' = passes + 1
    /\ task' = [p \in PackPairs |-> "contains1"]
    /\ pc' = "clear_scan"
    /\ UNCHANGED <<ents, ball, bounds, view, raw_delta, timer, touching, scanned,
                   cleared_entites, commands, tickVars>>

\* line 188: !cleared_entites.lock().unwrap().contains(&entity1)
clear_contains1(p) ==
    /\ pc = "clear_scan"
    /\ p \in DOMAIN task /\ task[p] = "contains1"
    /\ task' = [task EXCEPT ![p] = IF p[1] \in Range(cleared_entites)
                                   THEN "done" ELSE "contains2"]
    /\ UNCHANGED <<pc, ents, ball, bounds, view, raw_delta, timer, touching,
                   spaced, scanned, cleared_entites, passes, commands, tickVars>>

\* line 189: !cleared_entites.lock().unwrap().contains(&entity2)
clear_contains2(p) ==
    /\ pc = "clear_scan"
    /\ p \in DOMAIN task /\ task[p] = "contains2"
    /\ task' = [task EXCEPT ![p] = IF p[2] \in Range(cleared_entites)
                                   THEN "done" ELSE "push"]
    /\ UNCHANGED <<pc, ents, ball, bounds, view, raw_delta, timer, touching,
                   spaced, scanned, cleared_entites, passes, commands, tickVars>>

\* the push lost
PushedNothing(cleared, e) == cleared

\* the push replacing the list
PushedAlone(cleared, e) == <<e>>

\* line 197: cleared_entites.lock().unwrap().push(entity2)
Pushed(cleared, e) == Append(cleared, e)

\* lines 191-198: queue the despawn of entity2, record it, clear the flag
clear_push(p) ==
    /\ pc = "clear_scan"
    /\ p \in DOMAIN task /\ task[p] = "push"
    /\ commands' = Append(commands, p[2])
    /\ cleared_entites' = Pushed(cleared_entites, p[2])
    /\ spaced' = FALSE
    /\ task' = [task EXCEPT ![p] = "done"]
    /\ UNCHANGED <<pc, ents, ball, bounds, view, raw_delta, timer, touching,
                   scanned, passes, tickVars>>

\* the outer par_iter of a forced-resolution pass returns
clear_join ==
    /\ pc = "clear_scan"
    /\ \A p \in DOMAIN task : task[p] = "done"
    /\ task' = <<>>
    /\ pc' = "clear_loop"
    /\ UNCHANGED <<ents, ball, bounds, view, raw_delta, timer, touching, spaced,
                   scanned, cleared_entites, passes, commands, tickVars>>

\* line 179 false, line 203, then the queued commands are applied: every
\* entity with a despawn command leaves the world
pack_balls_exit ==
    /\ pc = "clear_loop"
    /\ spaced
    /\ ents' = ents \ Range(commands)
    /\ commands' = <<>>
    /\ pc' = "Simulate"
    /\ UNCHANGED <<ball, bounds, view, raw_delta, timer, touching, spaced,
                   scanned, cleared_entites, task, passes, tickVars>>

NextSetup ==
    \/ space_balls
    \/ pack_balls_enter
    \/ relax_step
    \/ \E p \in ents \X ents : relax_pair(p)
    \/ relax_join
    \/ relax_exit
    \/ clear_pass
    \/ \E p \in ents \X ents : clear_contains1(p)
    \/ \E p \in ents \X ents : clear_contains2(p)
    \/ \E p \in ents \X ents : clear_push(p)
    \/ clear_join
    \/ pack_balls_exit

SpecPack == InitPack /\ [][NextSetup]_vars

\* -------------------------------------------------------------- collider
\* lines 57-68: the rectangle is unwrap()ed, each corner unwrap_or_default()ed
ColliderBounds(v) == IF v = "ok" THEN ViewBounds ELSE DefaultBounds

WallEntry(e, w) == [subj |-> e, kind |-> "Wall", wall |-> w, other |-> e]
EntityEntry(e, o) == [subj |-> e, kind |-> "Entity", wall |-> "None", other |-> o]

\* the four wall tests taken in the order North, South, West, East
WallOfReversed(b, e) ==
    LET x == b[e].pos[1]
        y == b[e].pos[2]
        size == I(b[e].size)
    IN  IF RLt(RSub(bounds[2][2], size), y) THEN "North"
        ELSE IF RLt(y, RAdd(bounds[1][2], size)) THEN "South"
        ELSE IF RLt(x, RAdd(bounds[1][1], size)) THEN "West"
        ELSE IF RLt(RSub(bounds[2][1], size), x) THEN "East"
        ELSE "None"

\* lines 87-119: the four wall tests of ball e, first match wins
WallOf(b, e) ==
    LET x == b[e].pos[1]
        y == b[e].pos[2]
        size == I(b[e].size)
    IN  IF RLt(RSub(bounds[2][1], size), x) THEN "East"
        ELSE IF RLt(x, RAdd(bounds[1][1], size)) THEN "West"
        ELSE IF RLt(y, RAdd(bounds[1][2], size)) THEN "South"
        ELSE IF RLt(RSub(bounds[2][2], size), y) THEN "North"
        ELSE "None"

\* lines 76-120: what the check of the pair (entity1, entity2) pushes
Detection(b, e1, e2) ==
    IF Touches(b, e1, e2) /\ e1 # e2 THEN <<EntityEntry(e1, e2)>>
    ELSE IF WallOf(b, e1) # "None" THEN <<WallEntry(e1, WallOf(b, e1))>>
    ELSE <<>>

\* the pair checks of the detection scan that push an entry
DetectPairs == {p \in ents \X ents : Detection(ball, p[1], p[2]) # <<>>}

\* lines 57-69
collider_enter ==
    /\ pc = "Simulate"
    /\ tick < MaxTicks
    /\ \E v \in ViewSet :
        /\ view' = v
        /\ IF v = "norect"
           THEN /\ pc' = "Fault"
                /\ UNCHANGED bounds
           ELSE /\ pc' = "detect"
                /\ bounds' = ColliderBounds(v)
    /\ colliding' = <<>>
    /\ scanned' = {}
    /\ resolved' = {}
    /\ pre' = ball
    /\ UNCHANGED <<ents, ball, packVars, tick>>

\* lines 76-120: one pair check that pushes onto the contact list
collider_detect(p) ==
    /\ pc = "detect"
    /\ p \in DetectPairs \ scanned
    /\ colliding' = colliding \o Detection(ball, p[1], p[2])
    /\ scanned' = scanned \cup {p}
    /\ UNCHANGED <<pc, ents, ball, bounds, view, packVars, resolved, tick, pre>>

\* the entity a contact names besides its subject (the match arms of 129-136)
OtherOf(a) == IF a.kind = "Entity" THEN a.other ELSE a.subj

\* a.1 == b.1 on CollisionType (derived PartialEq)
SameType(a, b) ==
    /\ a.kind = b.kind
    /\ IF a.kind = "Wall" THEN a.wall = b.wall ELSE a.other = b.other

\* lines 126-138: the closure of dedup_by; a is the later entry
same_bucket(a, b) ==
    \/ a.subj = b.subj
    \/ (a.subj = OtherOf(b) /\ OtherOf(a) = b.subj)
    \/ SameType(a, b)

\* Vec::dedup_by: an entry is dropped when it is in the same bucket as the
\* last entry kept before it
RECURSIVE DedupFrom(_, _, _)
DedupFrom(s, k, out) ==
    IF k > Len(s) THEN out
    ELSE IF same_bucket(s[k], out[Len(out)]) THEN DedupFrom(s, k + 1, out)
    ELSE DedupFrom(s, k + 1, Append(out, s[k]))

\* the contact list left as the scan pushed it
DedupNone(s) == s

dedup_by(s) == IF s = <<>> THEN s ELSE DedupFrom(s, 2, <<s[1]>>)

\* lines 124-138: the scan has returned; the contact list is deduplicated
collider_dedup ==
    /\ pc = "detect"
    /\ DetectPairs \subseteq scanned
    /\ colliding' = dedup_by(colliding)
    /\ scanned' = {}
    /\ pc' = "resolve"
    /\ UNCHANGED <<ents, ball, bounds, view, packVars, resolved, tick, pre>>

\* the perpendicular component negated instead of forced away from the wall
WallResponseFlip(w, vel) ==
    CASE w = "North" -> <<vel[1], RNeg(vel[2])>>
      [] w = "East"  -> <<RNeg(vel[1]), vel[2]>>
      [] w = "West"  -> <<RNeg(vel[1]), vel[2]>>
      [] w = "South" -> <<vel[1], RNeg(vel[2])>>

\* both components turned back
WallResponseBounce(w, vel) == <<RNeg(vel[1]), RNeg(vel[2])>>

\* lines 146-168: the velocity a wall contact leaves
WallResponse(w, vel) ==
    CASE w = "North" -> <<vel[1], RNeg(RAbs(vel[2]))>>
      [] w = "East"  -> <<RNeg(RAbs(vel[1])), vel[2]>>
      [] w = "West"  -> <<RAbs(vel[1]), vel[2]>>
      [] w = "South" -> <<vel[1], RAbs(vel[2])>>

\* the mass scalars without their factor 2
NewVelocitiesHalf(b, e1, e2) ==
    LET mass1 == I(b[e1].mass)
        mass2 == I(b[e2].mass)
        dist_squared == RMax(distance_squared(b[e1].pos, b[e2].pos), I(1))
        mass_scalar_1 == RDiv(mass2, RAdd(mass1, mass2))
        mass_scalar_2 == RDiv(mass1, RAdd(mass2, mass1))
        collision_normal_1 == Truncate(Sub3(b[e1].pos, b[e2].pos))
        collision_normal_2 == Truncate(Sub3(b[e2].pos, b[e1].pos))
        velocity_projection_1 == Dot2(Sub2(b[e1].vel, b[e2].vel), collision_normal_1)
        velocity_projection_2 == Dot2(Sub2(b[e2].vel, b[e1].vel), collision_normal_2)
        normalized_velocity_1 ==
            Scale2(RDiv(RMul(mass_scalar_1, velocity_projection_1), dist_squared),
                   collision_normal_1)
        normalized_velocity_2 ==
            Scale2(RDiv(RMul(mass_scalar_2, velocity_projection_2), dist_squared),
                   collision_normal_2)
        new_velocity_1 == Sub2(b[e1].vel, normalized_velocity_1)
        new_velocity_2 == Sub2(b[e2].vel, normalized_velocity_2)
    IN  <<<<StoreVel(new_velocity_1[1]), StoreVel(new_velocity_1[2])>>,
          <<StoreVel(new_velocity_2[1]), StoreVel(new_velocity_2[2])>>>>

\* the second ball's change scaled by the first ball's mass scalar
NewVelocitiesSameScalar(b, e1, e2) ==
    LET mass1 == I(b[e1].mass)
        mass2 == I(b[e2].mass)
        dist_squared == RMax(distance_squared(b[e1].pos, b[e2].pos), I(1))
        mass_scalar_1 == RDiv(RMul(I(2), mass2), RAdd(mass1, mass2))
        collision_normal_1 == Truncate(Sub3(b[e1].pos, b[e2].pos))
        collision_normal_2 == Truncate(Sub3(b[e2].pos, b[e1].pos))
        velocity_projection_1 == Dot2(Sub2(b[e1].vel, b[e2].vel), collision_normal_1)
        velocity_projection_2 == Dot2(Sub2(b[e2].vel, b[e1].vel), collision_normal_2)
        normalized_velocity_1 ==
            Scale2(RDiv(RMul(mass_scalar_1, velocity_projection_1), dist_squared),
                   collision_normal_1)
        normalized_velocity_2 ==
            Scale2(RDiv(RMul(mass_scalar_1, velocity_projection_2), dist_squared),
                   collision_normal_2)
        new_velocity_1 == Sub2(b[e1].vel, normalized_velocity_1)
        new_velocity_2 == Sub2(b[e2].vel, normalized_velocity_2)
    IN  <<<<StoreVel(new_velocity_1[1]), StoreVel(new_velocity_1[2])>>,
          <<StoreVel(new_velocity_2[1]), StoreVel(new_velocity_2[2])>>>>

\* lines 195-219: the two velocities a ball-ball contact leaves
NewVelocities(b, e1, e2) ==
    LET mass1 == I(b[e1].mass)
        mass2 == I(b[e2].mass)
        dist_squared == RMax(distance_squared(b[e1].pos, b[e2].pos), I(1))
        mass_scalar_1 == RDiv(RMul(I(2), mass2), RAdd(mass1, mass2))
        mass_scalar_2 == RDiv(RMul(I(2), mass1), RAdd(mass2, mass1))
        collision_normal_1 == Truncate(Sub3(b[e1].pos, b[e2].pos))
        collision_normal_2 == Truncate(Sub3(b[e2].pos, b[e1].pos))
        velocity_projection_1 == Dot2(Sub2(b[e1].vel, b[e2].vel), collision_normal_1)
        velocity_projection_2 == Dot2(Sub2(b[e2].vel, b[e1].vel), collision_normal_2)
        normalized_velocity_1 ==
            Scale2(RDiv(RMul(mass_scalar_1, velocity_projection_1), dist_squared),
                   collision_normal_1)
        normalized_velocity_2 ==
            Scale2(RDiv(RMul(mass_scalar_2, velocity_projection_2), dist_squared),
                   collision_normal_2)
        new_velocity_1 == Sub2(b[e1].vel, normalized_velocity_1)
        new_velocity_2 == Sub2(b[e2].vel, normalized_velocity_2)
    IN  <<<<StoreVel(new_velocity_1[1]), StoreVel(new_velocity_1[2])>>,
          <<StoreVel(new_velocity_2[1]), StoreVel(new_velocity_2[2])>>>>

\* lines 227-238: the translation of e1 pushed away from e2
Depenetrated(b, e1, e2) ==
    LET size1 == I(b[e1].size)
        size2 == I(b[e2].size)
        normal == Truncate(Sub3(b[e1].pos, b[e2].pos))
        push == RSub(size1, RMul(Length2(normal), RDiv(size1, RAdd(size1, size2))))
        moved == Add3(b[e1].pos, Extend(Scale2(push, normalize_or_zero(normal)), I(1)))
    IN  <<StorePos(moved[1]), StorePos(moved[2]), moved[3]>>

\* the response with the two balls' masses exchanged as well
EntityResponseExchange(b, e1, e2) ==
    LET nv == NewVelocities(b, e1, e2)
    IN  [e \in DOMAIN b |->
            IF e = e1
            THEN [b[e] EXCEPT !.vel = nv[1], !.mass = b[e2].mass,
                              !.pos = Depenetrated(b, e1, e2)]
            ELSE IF e = e2
            THEN [b[e] EXCEPT !.vel = nv[2], !.mass = b[e1].mass,
                              !.pos = Depenetrated(b, e2, e1)]
            ELSE b[e]]

\* lines 169-239: the ball-ball response, both balls written
EntityResponse(b, e1, e2) ==
    LET nv == NewVelocities(b, e1, e2)
    IN  [e \in DOMAIN b |->
            IF e = e1
            THEN [b[e] EXCEPT !.vel = nv[1], !.pos = Depenetrated(b, e1, e2)]
            ELSE IF e = e2
            THEN [b[e] EXCEPT !.vel = nv[2], !.pos = Depenetrated(b, e2, e1)]
            ELSE b[e]]

\* lines 143-240: the response to one entry of the contact list
Response(b, c) ==
    IF c.kind = "Wall"
    THEN [b EXCEPT ![c.subj].vel = WallResponse(c.wall, b[c.subj].vel)]
    ELSE EntityResponse(b, c.subj, c.other)

\* lines 139-242: one entry handled by a par_splat_map task, under the lock
collider_resolve(k) ==
    /\ pc = "resolve"
    /\ k \in DOMAIN colliding \ resolved
    /\ ball' = Response(ball, colliding[k])
    /\ resolved' = resolved \cup {k}
    /\ UNCHANGED <<pc, ents, bounds, view, packVars, scanned, colliding, tick, pre>>

\* the translation advanced but not clamped
IntegratedUnclamped(b, e) == Add3(b[e].pos, Extend(b[e].vel, I(1)))

\* lines 249-252: (translation + vel.extend(1)).clamp(min + (size - 0.1), max - (size - 0.1))
Integrated(b, e) ==
    LET margin == Splat(RSub(I(b[e].size), Eps))
        moved == Add3(b[e].pos, Extend(b[e].vel, I(1)))
    IN  Clamp3(<<StorePos(moved[1]), StorePos(moved[2]), moved[3]>>,
               Extend(Add2(bounds[1], margin), I(1)),
               Extend(Sub2(bounds[2], margin), I(1)))

\* lines 244-253: every response is applied; every ball is moved and clamped
collider_integrate ==
    /\ pc = "resolve"
    /\ resolved = DOMAIN colliding
    /\ ball' = [e \in DOMAIN ball |->
                   IF e \in ents THEN [ball[e] EXCEPT !.pos = Integrated(ball, e)]
                   ELSE ball[e]]
    /\ tick' = tick + 1
    /\ pc' = "Simulate"
    /\ UNCHANGED <<ents, bounds, view, packVars, scanned, colliding, resolved, pre>>

NextSimulate ==
    \/ collider_enter
    \/ \E p \in ents \X ents : collider_detect(p)
    \/ collider_dedup
    \/ \E k \in DOMAIN colliding : collider_resolve(k)
    \/ collider_integrate

Next == NextSetup \/ NextSimulate

Spec == Init /\ [][Next]_vars

\* ------------------------------------------- the ball-ball response alone
\* the collider at the start of its resolution phase with one ball-ball entry
\* on the deduplicated list: two overlapping balls, the first at (3, 3), the
\* second at one of these offsets from it (squared distances 0, 1/4, 1/2, 2,
\* 5 and 9), both at the z every integration leaves
ResponseOffsets ==
    {<<I(0), I(0)>>, <<<<1, 2>>, I(0)>>, <<<<1, 2>>, <<1, 2>>>>,
     <<I(1), I(1)>>, <<I(2), I(1)>>, <<I(0), I(3)>>}
ResponseMassSet == {1, 2, 3}

InitResponse ==
    /\ pc = "resolve"
    /\ ents = 1..2
    /\ \E off \in ResponseOffsets, v1, v2 \in VelSet, m1, m2 \in ResponseMassSet :
        ball = <<[pos |-> <<I(3), I(3), I(1)>>, vel |-> v1, size |-> 2, mass |-> m1],
                 [pos |-> <<RAdd(I(3), off[1]), RAdd(I(3), off[2]), I(1)>>,
                  vel |-> v2, size |-> 2, mass |-> m2]>>
    /\ pre = ball
    /\ bounds = ViewBounds
    /\ view = "ok"
    /\ raw_delta = 0
    /\ timer = 0
    /\ touching = Empty
    /\ spaced = TRUE
    /\ scanned = {}
    /\ cleared_entites = <<>>
    /\ task = <<>>
    /\ passes = 1
    /\ commands = <<>>
    /\ colliding = <<EntityEntry(1, 2)>>
    /\ resolved = {}
    /\ tick = 1

NextResponse ==
    \/ \E k \in DOMAIN colliding : collider_resolve(k)
    \/ collider_integrate

SpecResponse == InitResponse /\ [][NextResponse]_vars

\* ================================================================ claims
\* the squared distance of two balls is at least the square of the sum of
\* their radii
Apart(b, i, j) ==
    RLe(I((b[i].size + b[j].size) * (b[i].size + b[j].size)),
        distance_squared(b[i].pos, b[j].pos))

\* C1: when pack_balls has returned, every two distinct surviving balls are at
\* a squared distance of at least (r_i + r_j)^2, for every placement and every
\* interleaving of the pair checks.
C1_NoResidualOverlap ==
    pc = "Simulate" => \A i, j \in ents : i # j => Apart(ball, i, j)

\* pack_balls returned after deleting a ball and two balls survive
C1_Witness ==
    /\ pc = "Simulate"
    /\ tick = 0
    /\ cleared_entites # <<>>
    /\ Cardinality(ents) >= 2

\* C5: the forced-resolution loop makes at most n+1 passes for n balls, and
\* every pass but the last marks a ball that was not marked before (the passes
\* started never exceed the balls marked so far plus one).
C5_PassBound ==
    /\ passes <= Cardinality(DOMAIN ball) + 1
    /\ passes <= Cardinality(Range(cleared_entites)) + 1

\* pack_balls returned after a pass that marked a ball and a last pass
C5_Witness ==
    /\ pc = "Simulate"
    /\ tick = 0
    /\ passes = 2
    /\ cleared_entites # <<>>

\* C6: the relaxation loop goes on while contacts remain: after a pass that
\* found a contacting pair, with the time budget not used up, the loop runs a
\* further step (which adds the accumulated impulses to the positions); it is
\* left early only after a pass that found no contact.
C6_KeepsRelaxing ==
    (pc = "relax_loop" /\ touching # Empty /\ ~TimerFinished) => ~spaced

\* every ball e of b fits between the bounds / lies at least margin inside them
Fits(b, e) ==
    /\ RLe(RAdd(bounds[1][1], I(b[e].size)), RSub(bounds[2][1], I(b[e].size)))
    /\ RLe(RAdd(bounds[1][2], I(b[e].size)), RSub(bounds[2][2], I(b[e].size)))

Within(b, e, margin) ==
    /\ RLe(RAdd(bounds[1][1], margin), b[e].pos[1])
    /\ RLe(b[e].pos[1], RSub(bounds[2][1], margin))
    /\ RLe(RAdd(bounds[1][2], margin), b[e].pos[2])
    /\ RLe(b[e].pos[2], RSub(bounds[2][2], margin))

\* C3 as stated: after space_balls, after pack_balls and after every collider
\* tick, with bounds in which every ball fits, each ball's centre is at least
\* its radius inside the bounds.
C3_ClampToRadius ==
    (pc \in {"pack_balls", "Simulate"}) =>
        \A e \in ents : Fits(ball, e) => Within(ball, e, I(ball[e].size))

\* C3, amended: after space_balls and after pack_balls each ball's centre is
\* at least its radius inside the bounds; after a collider tick it is at least
\* its radius less 0.1 inside the bounds that tick computed, when the ball
\* fits in them.
C3_ClampToMargin ==
    /\ (pc = "pack_balls" \/ (pc = "Simulate" /\ tick = 0)) =>
           \A e \in ents : Within(ball, e, I(ball[e].size))
    /\ (pc = "Simulate" /\ tick > 0) =>
           \A e \in ents : Fits(ball, e) => Within(ball, e, RSub(I(ball[e].size), Eps))

\* a collider tick has ended with a ball held at the clamp limit, closer to
\* the east bound than its radius
C3_Witness ==
    /\ pc = "Simulate"
    /\ tick > 0
    /\ \E e \in ents :
        /\ Fits(ball, e)
        /\ ball[e].pos[1] = RSub(bounds[2][1], RSub(I(ball[e].size), Eps))

\* the entries of the contact list between the balls i and j
PairEntries(i, j) ==
    {k \in DOMAIN colliding :
        /\ colliding[k].kind = "Entity"
        /\ {colliding[k].subj, colliding[k].other} = {i, j}}

\* C2: in a collider tick, every pair of balls detected as overlapping gets the
\* ball-ball response exactly once: the deduplicated contact list, each entry
\* of which is responded to once, holds exactly one entry for the pair,
\* whatever the order the entries were pushed in.
C2_PairResolvedOnce ==
    (pc = "resolve" /\ view = "ok") =>
        \A i, j \in ents :
            (i # j /\ Touches(pre, i, j)) => Cardinality(PairEntries(i, j)) = 1

\* the wall a ball of the tick's first state is past, if it touches no other
\* ball there
LoneWall(e) ==
    IF \E o \in ents : o # e /\ Touches(pre, e, o) THEN "None" ELSE WallOf(pre, e)

\* C4: a ball that overlaps no other ball and is past a wall threshold at
\* detection ends the tick with its velocity component perpendicular to that
\* wall pointing away from the wall (East -|x|, West +|x|, South +|y|,
\* North -|y|), with any number of balls.
C4_WallReflects ==
    (pc = "Simulate" /\ tick > 0 /\ view = "ok") =>
        \A e \in ents :
            /\ LoneWall(e) = "East" => ball[e].vel[1] = RNeg(RAbs(pre[e].vel[1]))
            /\ LoneWall(e) = "West" => ball[e].vel[1] = RAbs(pre[e].vel[1])
            /\ LoneWall(e) = "South" => ball[e].vel[2] = RAbs(pre[e].vel[2])
            /\ LoneWall(e) = "North" => ball[e].vel[2] = RNeg(RAbs(pre[e].vel[2]))

\* the step handles entry k of the contact list
Resolves(k) ==
    /\ pc = "resolve"
    /\ k \in DOMAIN colliding
    /\ k \notin resolved
    /\ resolved' = resolved \cup {k}

\* equal masses, the same z, at least distance 1 apart, opposite velocities
\* along the line joining the centres
HeadOn(b, e1, e2) ==
    LET normal == Truncate(Sub3(b[e1].pos, b[e2].pos))
    IN  /\ b[e1].mass = b[e2].mass
        /\ b[e1].pos[3] = b[e2].pos[3]
        /\ RLe(I(1), distance_squared(b[e1].pos, b[e2].pos))
        /\ b[e2].vel = <<RNeg(b[e1].vel[1]), RNeg(b[e1].vel[2])>>
        /\ RMul(b[e1].vel[1], normal[2]) = RMul(b[e1].vel[2], normal[1])

\* C7: the ball-ball response to two overlapping balls of equal mass, at the
\* same z and at least distance 1 apart, with velocities v and -v along the
\* line joining their centres, leaves the first with -v and the second with v.
C7_HeadOnSwap ==
    [][\A k \in DOMAIN colliding :
          (/\ Resolves(k)
           /\ colliding[k].kind = "Entity"
           /\ HeadOn(ball, colliding[k].subj, colliding[k].other)) =>
              /\ ball'[colliding[k].subj].vel = ball[colliding[k].other].vel
              /\ ball'[colliding[k].other].vel = ball[colliding[k].subj].vel]_vars

\* the first response of a tick was a ball-ball response to a head-on pair
\* with non-zero velocities, which are now exchanged
C7_Witness ==
    /\ pc = "resolve"
    /\ \E k \in DOMAIN colliding :
        /\ resolved = {k}
        /\ colliding[k].kind = "Entity"
        /\ HeadOn(pre, colliding[k].subj, colliding[k].other)
        /\ pre[colliding[k].subj].vel # Zero2
        /\ ball[colliding[k].subj].vel = pre[colliding[k].other].vel
        /\ ball[colliding[k].other].vel = pre[colliding[k].subj].vel

\* C8: after deduplication each ball is the subject of at most one entry of
\* the contact list, whatever the order the scan pushed the entries in.
C8_OneEntryPerSubject ==
    (pc = "resolve" /\ view = "ok") =>
        \A e \in ents : Cardinality({k \in DOMAIN colliding : colliding[k].subj = e}) <= 1

\* C9: a call that cannot obtain the viewport rectangle or one of its corners
\* stops with a fatal fault; it never goes on with substitute bounds.
C9_FatalWithoutViewport == view # "ok" => pc = "Fault"

\* the velocity component perpendicular to wall w points away from the wall
PointsAway(w, vel) ==
    CASE w = "North" -> vel[2][1] <= 0
      [] w = "East"  -> vel[1][1] <= 0
      [] w = "West"  -> vel[1][1] >= 0
      [] w = "South" -> vel[2][1] >= 0

\* C10: the wall response applied to a ball whose velocity component
\* perpendicular to that wall already points away from it leaves the ball's
\* velocity unchanged.
C10_WallIdempotent ==
    [][\A k \in DOMAIN colliding :
          (/\ Resolves(k)
           /\ colliding[k].kind = "Wall"
           /\ PointsAway(colliding[k].wall, ball[colliding[k].subj].vel)) =>
              ball'[colliding[k].subj].vel = ball[colliding[k].subj].vel]_vars

\* a ball that moved towards a wall has had the response for that wall
\* applied twice and has the velocity the first application gave it
C10_Witness ==
    /\ pc = "resolve"
    /\ \E k1, k2 \in resolved :
        /\ k1 # k2
        /\ colliding[k1] = colliding[k2]
        /\ colliding[k1].kind = "Wall"
        /\ ~PointsAway(colliding[k1].wall, pre[colliding[k1].subj].vel)
        /\ ball[colliding[k1].subj].vel =
               WallResponse(colliding[k1].wall, pre[colliding[k1].subj].vel)

\* no entry of the list is in the same bucket as the entry before it
Deduplicated(s) ==
    \A k \in 1..(Len(s) - 1) : ~same_bucket(s[k + 1], s[k])

\* the step belongs to a running collider call
InTick == pc \in {"detect", "resolve"}

\* C11: within a collider tick the phases are strictly ordered: while the
\* contact list is still being pushed to or deduplicated no ball has been
\* written by a response of the tick; a response acts on a deduplicated list
\* and leaves the list alone (so no push and no deduplication follows it); and
\* the positions are integrated only when every entry of the list has had its
\* response.
C11_PhasesOrdered ==
    [][/\ (InTick /\ colliding' # colliding) =>
              /\ pc = "detect"
              /\ resolved = {}
              /\ ball = pre
              /\ ball' = ball
       /\ (InTick /\ resolved' # resolved) =>
              /\ pc = "resolve"
              /\ Deduplicated(colliding)
              /\ colliding' = colliding
              /\ tick' = tick
       /\ (InTick /\ tick' # tick) =>
              /\ pc = "resolve"
              /\ resolved = DOMAIN colliding
              /\ colliding' = colliding]_vars

\* a tick has ended whose deduplicated list held two entries, both responded
\* to, and a response changed a velocity
C11_Witness ==
    /\ pc = "Simulate"
    /\ tick > 0
    /\ Len(colliding) >= 2
    /\ resolved = DOMAIN colliding
    /\ \E e \in ents : ball[e].vel # pre[e].vel

\* C12: the ball population never grows and is fixed during simulation: no
\* step adds a ball to the set create_balls made (pack_balls only removes
\* balls), and every step of a collider tick leaves the set of balls and each
\* ball's radius and mass unchanged.
C12_PopulationFixed ==
    [][/\ ents' \subseteq ents
       /\ DOMAIN ball' = DOMAIN ball
       /\ (pc \in {"Simulate", "detect", "resolve"}) =>
              /\ ents' = ents
              /\ \A e \in DOMAIN ball :
                    /\ ball'[e].size = ball[e].size
                    /\ ball'[e].mass = ball[e].mass]_vars

\* pack_balls deleted a ball, and a collider tick has ended in which a
\* response changed the velocity of a surviving ball
C12_Witness ==
    /\ pc = "Simulate"
    /\ tick > 0
    /\ ents # {}
    /\ ents # DOMAIN ball
    /\ \E e \in ents : ball[e].vel # pre[e].vel

\* C13: whatever the interleaving of the pair checks, the forced resolution
\* deletes at most n-1 of the n balls: when pack_balls has returned at least
\* one ball survives (of two balls that overlap only each other, exactly one).
C13_OneSurvives ==
    (pc = "Simulate" /\ tick = 0) => ents # {}

\* the index of the velocity component perpendicular to wall w
Perp(w) == IF w \in {"East", "West"} THEN 1 ELSE 2

\* C14: a wall response changes only the component of the subject's velocity
\* perpendicular to the wall: the subject's tangential component and position
\* and every other ball are as before the response.
C14_WallFrame ==
    [][\A k \in DOMAIN colliding :
          (Resolves(k) /\ colliding[k].kind = "Wall") =>
              LET e == colliding[k].subj
                  t == 3 - Perp(colliding[k].wall)
              IN  /\ ball'[e].vel[t] = ball[e].vel[t]
                  /\ ball'[e].pos = ball[e].pos
                  /\ ball'[e].size = ball[e].size
                  /\ ball'[e].mass = ball[e].mass
                  /\ \A o \in DOMAIN ball : o # e => ball'[o] = ball[o]]_vars

\* the only response applied so far in the tick is a wall response that turned
\* back the perpendicular component of a ball moving along the wall as well
C14_Witness ==
    /\ pc = "resolve"
    /\ \E k \in DOMAIN colliding :
        /\ resolved = {k}
        /\ colliding[k].kind = "Wall"
        /\ LET e == colliding[k].subj
               w == colliding[k].wall
           IN  /\ pre[e].vel[3 - Perp(w)] # I(0)
               /\ ball[e].vel[Perp(w)] # pre[e].vel[Perp(w)]
               /\ ball[e].vel[3 - Perp(w)] = pre[e].vel[3 - Perp(w)]
               /\ Cardinality(ents) >= 2

\* ball e of b satisfies the condition of wall w
PastWall(b, e, w) ==
    CASE w = "East"  -> RLt(RSub(bounds[2][1], I(b[e].size)), b[e].pos[1])
      [] w = "West"  -> RLt(b[e].pos[1], RAdd(bounds[1][1], I(b[e].size)))
      [] w = "South" -> RLt(b[e].pos[2], RAdd(bounds[1][2], I(b[e].size)))
      [] w = "North" -> RLt(RSub(bounds[2][2], I(b[e].size)), b[e].pos[2])

WallPriority == <<"East", "West", "South", "North">>

\* the walls whose condition ball e satisfied when the tick began, as indices
\* of WallPriority
WallsPast(e) == {n \in 1..4 : PastWall(pre, e, WallPriority[n])}

\* C15: wall detection takes East, West, South, North in this order and the
\* first match wins: every wall contact recorded for a ball in a tick names
\* the first wall in that order whose condition the ball satisfies, and a ball
\* that satisfies more than one wall condition and touches no other ball ends
\* the tick with the velocity it had or with that velocity after the response
\* for the first such wall alone (no other wall's component is reflected).
C15_WallPriority ==
    /\ InTick =>
           \A k \in DOMAIN colliding :
               colliding[k].kind = "Wall" =>
                   \E n \in WallsPast(colliding[k].subj) :
                       /\ colliding[k].wall = WallPriority[n]
                       /\ \A m \in WallsPast(colliding[k].subj) : n <= m
    /\ (pc = "Simulate" /\ tick > 0) =>
           \A e \in ents :
               (/\ Cardinality(WallsPast(e)) > 1
                /\ \A o \in ents : o # e => ~Touches(pre, e, o)) =>
                   \E n \in WallsPast(e) :
                       /\ \A m \in WallsPast(e) : n <= m
                       /\ ball[e].vel \in {pre[e].vel,
                                           WallResponse(WallPriority[n], pre[e].vel)}

\* a ball that began the tick in the south-west corner moving into both walls
\* ends it with its x component turned back and its y component as it was
C15_Witness ==
    /\ pc = "Simulate"
    /\ tick > 0
    /\ view = "ok"
    /\ \E e \in ents :
        /\ WallsPast(e) = {2, 3}
        /\ pre[e].vel[1][1] < 0
        /\ pre[e].vel[2][1] < 0
        /\ ball[e].vel = <<RNeg(pre[e].vel[1]), pre[e].vel[2]>>

\* the forced resolution is running or pack_balls has just returned
InClear == pc \in {"clear_loop", "clear_scan"} \/ (pc = "Simulate" /\ tick = 0)

\* C16: the forced resolution removes no ball that needs no removal and moves
\* nothing: every ball marked cleared, named by a despawn command or deleted
\* overlaps another ball (a ball that overlaps no other ball when the phase
\* starts is never marked or deleted), and no step of the phase changes a
\* ball's position or radius.
C16_ClearsOnlyOverlapping ==
    /\ [](InClear =>
             \A e \in Range(cleared_entites) \cup Range(commands)
                        \cup (DOMAIN ball \ ents) :
                 \E o \in DOMAIN ball : o # e /\ Touches(ball, e, o))
    /\ [][(pc \in {"clear_loop", "clear_scan"}) =>
              \A e \in DOMAIN ball :
                  /\ ball'[e].pos = ball[e].pos
                  /\ ball'[e].size = ball[e].size]_vars

\* pack_balls has returned having deleted a ball while a ball that overlapped
\* no other survives next to another survivor
C16_Witness ==
    /\ pc = "Simulate"
    /\ tick = 0
    /\ ents # DOMAIN ball
    /\ \E e \in ents : \A o \in DOMAIN ball : o # e => ~Touches(ball, e, o)

\* C17: whatever the interleaving of the pair checks, each ball is marked
\* cleared at most once and gets at most one despawn command: neither the
\* cleared list nor the command queue names the same ball twice.
C17_ClearedOnce ==
    /\ \A k1, k2 \in DOMAIN cleared_entites :
           cleared_entites[k1] = cleared_entites[k2] => k1 = k2
    /\ \A k1, k2 \in DOMAIN commands :
           commands[k1] = commands[k2] => k1 = k2

\* mass_1 * vel_1 + mass_2 * vel_2
Momentum(b, e1, e2) ==
    Add2(Scale2(I(b[e1].mass), b[e1].vel), Scale2(I(b[e2].mass), b[e2].vel))

\* C18: one application of the ball-ball response conserves the total linear
\* momentum of the two balls, for any positive masses and also when the
\* squared distance is floored to 1:
\* mass_a * newVel_a + mass_b * newVel_b = mass_a * vel_a + mass_b * vel_b.
C18_MomentumConserved ==
    [][\A k \in DOMAIN colliding :
          (Resolves(k) /\ colliding[k].kind = "Entity") =>
              LET e1 == colliding[k].subj
                  e2 == colliding[k].other
              IN  /\ ball'[e1].mass = ball[e1].mass
                  /\ ball'[e2].mass = ball[e2].mass
                  /\ Momentum(ball', e1, e2) = Momentum(ball, e1, e2)]_vars

\* the response was applied to two balls of different mass less than distance
\* 1 apart (squared distance floored to 1) and changed both velocities
C18_Witness ==
    /\ pc = "resolve"
    /\ resolved = {1}
    /\ colliding[1].kind = "Entity"
    /\ pre[1].mass # pre[2].mass
    /\ pre[1].pos # pre[2].pos
    /\ RLt(distance_squared(pre[1].pos, pre[2].pos), I(1))
    /\ ball[1].vel # pre[1].vel
    /\ ball[2].vel # pre[2].vel

\* C19: the forced resolution makes at most two full passes over the pairs,
\* for every placement and interleaving: when a pass has ended every
\* contacting pair has a member marked cleared, so a second pass finds no
\* contact and the loop is left.
C19_TwoPasses ==
    /\ passes <= 2
    /\ (pc = "clear_loop" /\ passes >= 1) =>
           \A p \in PackPairs :
               p[1] \in Range(cleared_entites) \/ p[2] \in Range(cleared_entites)
    /\ (pc = "clear_loop" /\ passes = 2) => spaced

\* the second pass has ended without finding a contact, after a first pass
\* that marked two balls
C19_Witness ==
    /\ pc = "clear_loop"
    /\ passes = 2
    /\ spaced
    /\ Cardinality(Range(cleared_entites)) >= 2

====
